---- MODULE Spec2Model ----
(***************************************************************************)
(* Streaming HTTP/1.x reverse proxy (src/proxy).                           *)
(*                                                                         *)
(* Spec      : the acceptor (ProxyServer._handle_client_wrapper), the      *)
(*             per-connection handler (handle_client) and the upstream     *)
(*             pool (UpstreamPool), one asyncio task per accepted          *)
(*             connection.  A task runs without interruption between two   *)
(*             awaits that suspend, so one action is the code from one     *)
(*             suspension point to the next.                               *)
(* SpecFixed : stream_body_fixed on byte sequences with short reads.       *)
(* SpecChunked : stream_body_chunked on byte sequences, line reads and     *)
(*             short reads.                                                *)
(* SpecStream : one message through the pipeline: a request head parsed,   *)
(*             forwarded and followed by the body copy handle_client       *)
(*             selects, or a response through stream_response.             *)
(***************************************************************************)
EXTENDS Integers, Sequences, FiniteSets, TLC

(***************************************************************************)
(* Bounds of the model.                                                    *)
(***************************************************************************)
\* connections the listener accepts in one run
NumConns == 3
\* config.limits.max_client_conns
MaxClientConns == 2
\* config.limits.max_conns_per_upstream
MaxConnsPerUpstream == 1
\* len(config.upstreams)
NumUpstreams == 2
\* failures the environment injects in one run: I/O errors, timeouts,
\* malformed input, cancellations
MaxFaults == 1

\* stream_body_fixed: the longest source, the largest length argument, the
\* number of byte values
MaxSrcLen == 4
MaxLength == 4
NumByteValues == 2
\* CHUNK_SIZE (client_handler.py:22) is 16 * 1024; scaled down, so that
\* bodies longer than one buffer stay within MaxLength
CHUNK_SIZE == 2

\* stream_body_chunked: the most chunks of a body before the last chunk,
\* the longest chunk, the longest source that follows no grammar
MaxChunks == 2
MaxChunkLen == 1
MaxJunkLen == 2
\* message heads: the most header lines
MaxHeaders == 2

Conns == 1..NumConns
Upstreams == 0..(NumUpstreams - 1)

VARIABLES
    client_semaphore,     \* ProxyServer._client_semaphore: free slots
    active_connections,   \* ProxyServer._active_connections
    semaphore,            \* Upstream.semaphore of each upstream: free slots
    index,                \* UpstreamPool._index
    selections,           \* the upstreams get_next returned, in order
    pc,                   \* where each connection's task is suspended
    exc,                  \* the exception the task raised ("none" if none)
    trace_id,             \* trace_id_var in the task's context (0: unset)
    upstream,             \* the upstream acquire_connection selected (-1: none)
    up_writer,            \* the upstream socket: "none", "open", "closed"
    client_writer,        \* the client socket: "none", "open", "closed"
    sent,                 \* response heads written to the client writer
    faults,               \* failures injected so far
    src,                  \* body copies: the bytes the reader will supply
    pos,                  \* body copies: how many of them were read
    dst,                  \* body copies: the bytes written to the writer
    length,               \* stream_body_fixed: the length argument
    remaining,            \* body copies: the local remaining
    requested,            \* body copies: the size asked of the last read()
    fpc,                  \* body copies: the await the copy is suspended at,
                          \* "returned" or the error raised
    head,                 \* message head: the lines the reader will supply
    hpos,                 \* message head: how many of them were read
    wrote,                \* message head: the lines written to the writer
    spc,                  \* message head: the await the pipeline is suspended
                          \* at, or the class of the error raised
    request,              \* handle_client: the HttpRequest parse_request built
    content_length,       \* stream_response: the local ({}: None)
    is_chunked            \* stream_response: the local

connVars == <<pc, exc, trace_id, upstream, up_writer, client_writer, sent>>
poolVars == <<semaphore, index, selections>>
serverVars == <<client_semaphore, active_connections>>
fixedVars == <<src, pos, dst, length, remaining, requested, fpc>>
streamVars == <<head, hpos, wrote, spc, request, content_length, is_chunked>>
vars == <<serverVars, poolVars, connVars, faults, fixedVars, streamVars>>

(***************************************************************************)
(* Exceptions.  The classes the code raises or lets through, and the       *)
(* types an except clause of handle_client matches them against.           *)
(* asyncio.wait_for raises asyncio.TimeoutError, which is the builtin      *)
(* TimeoutError from Python 3.11 on and a separate subclass of Exception   *)
(* before ("AsyncioTimeoutError"); the repository pins no version.         *)
(***************************************************************************)
Mro(e) ==
    CASE e = "TimeoutError"        -> {"TimeoutError", "OSError", "Exception"}
      [] e = "ConnectionError"     -> {"ConnectionError", "OSError", "Exception"}
      [] e = "OSError"             -> {"OSError", "Exception"}
      [] e = "ValueError"          -> {"ValueError", "Exception"}
      [] e = "AsyncioTimeoutError" -> {"AsyncioTimeoutError", "Exception"}
      [] e = "CancelledError"      -> {"CancelledError"}
      [] OTHER                     -> {}

isinstance(e, type) == type \in Mro(e)

\* a with_timeout that lets asyncio.TimeoutError through unchanged
with_timeout_unconverted == "AsyncioTimeoutError"

\* with_timeout: asyncio.TimeoutError becomes the builtin TimeoutError
with_timeout == "TimeoutError"

\* asyncio.wait_for(open_connection, timeout) expiring, by Python version
wait_for_timeout == {"TimeoutError", "AsyncioTimeoutError"}

\* except clauses with the general clause first
ErrorStatus_general_first(e) ==
    IF isinstance(e, "Exception") THEN 500
    ELSE IF isinstance(e, "TimeoutError") THEN 504
    ELSE IF isinstance(e, "ConnectionError") THEN 502
    ELSE 0

\* except clauses without the ConnectionError clause
ErrorStatus_no_connection_clause(e) ==
    IF isinstance(e, "TimeoutError") THEN 504
    ELSE IF isinstance(e, "Exception") THEN 500
    ELSE 0

\* the except clauses of handle_client, first match wins; 0: none matches
ErrorStatus(e) ==
    IF isinstance(e, "TimeoutError") THEN 504
    ELSE IF isinstance(e, "ConnectionError") THEN 502
    ELSE IF isinstance(e, "Exception") THEN 500
    ELSE 0

\* len(body_bytes) of send_error for a status code
ErrorBodyLen(code) ==
    LET message == CASE code = 504 -> 15     \* "Gateway Timeout"
                     [] code = 502 -> 11     \* "Bad Gateway"
                     [] OTHER      -> 21     \* "Internal Server Error"
    IN  16 + 3 + 1 + message + 19

\* the response head send_error writes
ErrorResponse(code) ==
    [status |-> code, content_length |-> ErrorBodyLen(code),
     connection |-> "close", x_trace_id |-> 0]

\* a 503 without the trace id of the connection
Response503_untraced(tid) ==
    [status |-> 503, content_length |-> 0, connection |-> "close",
     x_trace_id |-> 0]

\* the response _handle_client_wrapper writes when the limit is reached
Response503(tid) ==
    [status |-> 503, content_length |-> 0, connection |-> "close",
     x_trace_id |-> tid]

\* a response head of the upstream, forwarded verbatim by stream_response
UpstreamHead ==
    [status |-> 200, content_length |-> -1, connection |-> "upstream",
     x_trace_id |-> 0]

\* one more failure is injected; an exception that an "except Exception:
\* pass" swallows changes nothing and is not counted
Fault == faults < MaxFaults /\ faults' = faults + 1

\* a limit test that never finds the semaphore taken
locked_never(value) == FALSE

\* asyncio.Semaphore.locked()
locked(value) == value = 0

(***************************************************************************)
(* Initial state: ProxyServer.__init__, UpstreamPool.__init__.             *)
(***************************************************************************)
InitServer ==
    /\ client_semaphore = MaxClientConns
    /\ active_connections = 0

InitPool ==
    /\ semaphore = [u \in Upstreams |-> MaxConnsPerUpstream]
    /\ index = 0
    /\ selections = << >>

InitConns ==
    /\ pc = [c \in Conns |-> "idle"]
    /\ exc = [c \in Conns |-> "none"]
    /\ trace_id = [c \in Conns |-> 0]
    /\ upstream = [c \in Conns |-> -1]
    /\ up_writer = [c \in Conns |-> "none"]
    /\ client_writer = [c \in Conns |-> "none"]
    /\ sent = [c \in Conns |-> << >>]

\* no message head is in the run
NoStream ==
    /\ head = << >>
    /\ hpos = 0
    /\ wrote = << >>
    /\ spc = "unused"
    /\ request = [method |-> << >>, path |-> << >>, version |-> << >>,
                  headers |-> << >>]
    /\ content_length = {}
    /\ is_chunked = FALSE

NoFixed ==
    /\ src = << >>
    /\ pos = 0
    /\ dst = << >>
    /\ length = 0
    /\ remaining = 0
    /\ requested = 0
    /\ fpc = "unused"
    /\ NoStream

Init == InitServer /\ InitPool /\ InitConns /\ faults = 0 /\ NoFixed

(***************************************************************************)
(* ProxyServer._handle_client_wrapper.  Connections are numbered in the    *)
(* order in which the listener accepts them.  The locked() test and the    *)
(* acquire of a free semaphore run without suspending in between.          *)
(***************************************************************************)
Accepted(c) == pc[c] = "idle" /\ \A d \in Conns : d < c => pc[d] # "idle"

\* lines 88-104: limit reached, 503 written, suspended in drain()
AcceptReject(c) ==
    /\ Accepted(c)
    /\ locked(client_semaphore)
    /\ trace_id' = [trace_id EXCEPT ![c] = c]
    /\ client_writer' = [client_writer EXCEPT ![c] = "open"]
    /\ sent' = [sent EXCEPT ![c] = Append(@, Response503(c))]
    /\ pc' = [pc EXCEPT ![c] = "reject_drain"]
    /\ UNCHANGED <<serverVars, poolVars, exc, upstream, up_writer, faults, fixedVars, streamVars>>

\* lines 113-116 and handle_client up to the await of line 43
AcceptAdmit(c) ==
    /\ Accepted(c)
    /\ ~locked(client_semaphore)
    /\ client_semaphore' = client_semaphore - 1
    /\ active_connections' = active_connections + 1
    /\ client_writer' = [client_writer EXCEPT ![c] = "open"]
    /\ pc' = [pc EXCEPT ![c] = "parse"]
    /\ UNCHANGED <<poolVars, exc, trace_id, upstream, up_writer, sent, faults, fixedVars, streamVars>>

\* the task of c finishes, exception e escaping it ("none": it returned);
\* its context and the streams of its closed sockets are dropped
TaskDone(c, e) ==
    /\ pc' = [pc EXCEPT ![c] = "done"]
    /\ exc' = [exc EXCEPT ![c] = e]
    /\ trace_id' = [trace_id EXCEPT ![c] = 0]
    /\ upstream' = [upstream EXCEPT ![c] = -1]
    /\ sent' = [sent EXCEPT ![c] = << >>]
    /\ UNCHANGED <<up_writer, client_writer>>

\* lines 104-109: drain() returned, or raised and was swallowed; close()
RejectDrainedStep(c) ==
    /\ pc[c] = "reject_drain"
    /\ client_writer' = [client_writer EXCEPT ![c] = "closed"]
    /\ pc' = [pc EXCEPT ![c] = "reject_close"]
    /\ UNCHANGED <<serverVars, poolVars, exc, trace_id, upstream, up_writer, sent, fixedVars, streamVars>>

\* drain() returned
RejectDrained(c) == RejectDrainedStep(c) /\ UNCHANGED faults
\* drain() raised: except Exception: pass (lines 105-106)
RejectDrainRaises(c) == RejectDrainedStep(c) /\ UNCHANGED faults

\* lines 109-110: wait_closed() returned
RejectClosed(c) ==
    /\ pc[c] = "reject_close"
    /\ TaskDone(c, exc[c])
    /\ UNCHANGED <<serverVars, poolVars, faults, fixedVars, streamVars>>

\* line 109: wait_closed() raised inside the finally; nothing catches it
RejectCloseRaises(c) ==
    /\ pc[c] = "reject_close"
    /\ exc[c] = "none"
    /\ TaskDone(c, "ConnectionError")
    /\ UNCHANGED <<serverVars, poolVars, fixedVars, streamVars>>
    /\ Fault

(***************************************************************************)
(* handle_client: the except clauses and the finally (lines 75-90), run    *)
(* for exception e raised at the await where c is suspended.               *)
(***************************************************************************)
Except(c, e) ==
    /\ exc' = [exc EXCEPT ![c] = e]
    /\ IF ErrorStatus(e) # 0
       THEN \* send_error: the response is written, suspended in drain()
            /\ sent' = [sent EXCEPT ![c] = Append(@, ErrorResponse(ErrorStatus(e)))]
            /\ pc' = [pc EXCEPT ![c] = "send_error"]
            /\ UNCHANGED client_writer
       ELSE \* no clause matches: finally, close(), suspended in wait_closed()
            /\ client_writer' = [client_writer EXCEPT ![c] = "closed"]
            /\ pc' = [pc EXCEPT ![c] = "client_close"]
            /\ UNCHANGED sent

\* the errors of parse_request under with_timeout (http.py:58-65)
ParseErrors == {with_timeout, "ConnectionError", "ValueError"}

(***************************************************************************)
(* UpstreamPool.                                                           *)
(***************************************************************************)
\* a cursor that is not advanced
NextIndex_stuck(i) == i

\* get_next, line 63
NextIndex(i) == (i + 1) % NumUpstreams

\* a selection made again after the first one
get_next_again(c) ==
    /\ upstream' = [upstream EXCEPT ![c] = NextIndex(index)]
    /\ selections' = selections \o <<index, NextIndex(index)>>
    /\ index' = NextIndex(NextIndex(index))

\* get_next (lines 55-64) called for c at line 81; the lock is free, since
\* its holder does not suspend
get_next(c) ==
    /\ upstream' = [upstream EXCEPT ![c] = index]
    /\ selections' = Append(selections, index)
    /\ index' = NextIndex(index)

\* an acquire that does not wait for a free slot
CanAcquire_always(value) == TRUE

\* asyncio.Semaphore.acquire returns only with a free slot
CanAcquire(value) == value > 0

Acquire(u) == [semaphore EXCEPT ![u] = @ - 1]
Release(u) == [semaphore EXCEPT ![u] = @ + 1]

\* handle_client lines 43-52 and acquire_connection lines 81-86: the request
\* head is parsed, an upstream selected; with a free slot the connect is
\* started, else the task is suspended in the acquire of line 84
ParseOk(c) ==
    /\ pc[c] = "parse"
    /\ get_next(c)
    /\ \/ /\ CanAcquire(semaphore[index])
          /\ semaphore' = Acquire(index)
          /\ pc' = [pc EXCEPT ![c] = "connect"]
       \/ \* Semaphore.locked(): no free slot or, from Python 3.11 on,
          \* an earlier waiter that has not been resumed yet
          /\ \/ ~CanAcquire(semaphore[index])
             \/ \E d \in Conns : pc[d] = "wait_sem" /\ upstream[d] = index
          /\ UNCHANGED semaphore
          /\ pc' = [pc EXCEPT ![c] = "wait_sem"]
    /\ UNCHANGED <<serverVars, exc, trace_id, up_writer, client_writer, sent, faults, fixedVars, streamVars>>

\* a failed parse after which the cursor has moved on
NotSelected_advanced ==
    /\ index' = NextIndex(index)
    /\ UNCHANGED <<semaphore, selections>>

\* handle_client lines 43-52: an exception of line 43 leaves the try block
\* before acquire_connection is called
NotSelected == UNCHANGED poolVars

ParseFail(c) ==
    /\ pc[c] = "parse"
    /\ \E e \in ParseErrors : Except(c, e)
    /\ NotSelected
    /\ UNCHANGED <<serverVars, trace_id, upstream, up_writer, fixedVars, streamVars>>
    /\ Fault

\* a wait for the slot that ends at a deadline
AcquireSem_deadline(c) ==
    /\ pc[c] = "wait_sem"
    /\ Except(c, with_timeout)
    /\ UNCHANGED <<serverVars, poolVars, trace_id, upstream, up_writer, faults, fixedVars, streamVars>>

\* line 84: a slot was released and the waiting acquire returns; lines 86-88
AcquireSem(c) ==
    /\ pc[c] = "wait_sem"
    /\ CanAcquire(semaphore[upstream[c]])
    /\ semaphore' = Acquire(upstream[c])
    /\ pc' = [pc EXCEPT ![c] = "connect"]
    /\ UNCHANGED <<serverVars, index, selections, exc, trace_id, upstream, up_writer, client_writer, sent, faults, fixedVars, streamVars>>

\* the failures of asyncio.wait_for(open_connection(...), timeout)
ConnectErrors == wait_for_timeout \cup {"ConnectionError", "OSError"}

\* lines 86-90 and handle_client 53-57: connected, the request is being sent
ConnectOk(c) ==
    /\ pc[c] = "connect"
    /\ up_writer' = [up_writer EXCEPT ![c] = "open"]
    /\ pc' = [pc EXCEPT ![c] = "request"]
    /\ UNCHANGED <<serverVars, poolVars, exc, trace_id, upstream, client_writer, sent, faults, fixedVars, streamVars>>

\* a failed connect that keeps the slot
ConnectFailSemaphore_leak(u) == semaphore

\* semaphore after a failed connect: writer is None, the async with releases
ConnectFailSemaphore(u) == Release(u)

\* lines 86-97: the connect failed; the finally finds writer None
ConnectFail(c) ==
    /\ pc[c] = "connect"
    /\ semaphore' = ConnectFailSemaphore(upstream[c])
    /\ \E e \in ConnectErrors : Except(c, e)
    /\ UNCHANGED <<serverVars, index, selections, trace_id, upstream, up_writer, fixedVars, streamVars>>
    /\ Fault

(***************************************************************************)
(* The body of the acquire_connection scope (handle_client, lines 53-73).  *)
(***************************************************************************)
\* a scope exit that leaves the upstream writer as it is
ScopeExit_no_close(c, e) ==
    /\ exc' = [exc EXCEPT ![c] = e]
    /\ UNCHANGED up_writer
    /\ pc' = [pc EXCEPT ![c] = "up_close"]

\* acquire_connection, lines 91-94: the scope is left with exception e
\* ("none": normally); writer.close() is called, suspended in wait_closed()
ScopeExit(c, e) ==
    /\ exc' = [exc EXCEPT ![c] = e]
    /\ up_writer' = [up_writer EXCEPT ![c] = "closed"]
    /\ pc' = [pc EXCEPT ![c] = "up_close"]

\* a step of the scope body to the next await
Advance(c, from, to) ==
    /\ pc[c] = from
    /\ pc' = [pc EXCEPT ![c] = to]
    /\ UNCHANGED <<serverVars, poolVars, exc, trace_id, upstream, up_writer, client_writer, sent, faults, fixedVars, streamVars>>

\* a step of the scope body that raises one of errors
Raise(c, from, errors) ==
    /\ pc[c] = from
    /\ \E e \in errors : ScopeExit(c, e)
    /\ UNCHANGED <<serverVars, poolVars, trace_id, upstream, client_writer, sent, fixedVars, streamVars>>
    /\ Fault

\* forward_request_headers, the request body and up_writer.drain()
\* (handle_client lines 57-69): a lost connection in drain(), int(cl) of
\* HttpRequest.content_length, and the errors of the two body copies
RequestErrors == {with_timeout, "ConnectionError", "ValueError"}
\* stream_response, lines 215-221
StatusErrors == {with_timeout, "ConnectionError"}
\* stream_response, lines 237-261: the header block and the body copies
ResponseErrors == {with_timeout, "ConnectionError", "ValueError"}

\* lines 57-69 done; stream_response awaits the status line (line 215)
RequestSent(c) == Advance(c, "request", "response_status")
RequestFail(c) == Raise(c, "request", RequestErrors)

\* stream_response, lines 215-237: the status line forwarded to the client
StatusLine(c) ==
    /\ pc[c] = "response_status"
    /\ sent' = [sent EXCEPT ![c] = Append(@, UpstreamHead)]
    /\ pc' = [pc EXCEPT ![c] = "response_rest"]
    /\ UNCHANGED <<serverVars, poolVars, exc, trace_id, upstream, up_writer, client_writer, faults, fixedVars, streamVars>>

StatusFail(c) == Raise(c, "response_status", StatusErrors)
ResponseFail(c) == Raise(c, "response_rest", ResponseErrors)

\* lines 258-264 and 73: stream_response returned, the scope is left
ResponseDone(c) ==
    /\ pc[c] = "response_rest"
    /\ ScopeExit(c, "none")
    /\ UNCHANGED <<serverVars, poolVars, trace_id, upstream, client_writer, sent, faults, fixedVars, streamVars>>

(***************************************************************************)
(* Leaving the scopes.                                                     *)
(***************************************************************************)
\* semaphore when the async with of line 84 is left
ScopeSemaphore(u) == Release(u)

\* acquire_connection, lines 94-97: wait_closed() returned, or raised and
\* was swallowed; the semaphore is released; then handle_client, lines 75-88
UpClosedStep(c) ==
    /\ pc[c] = "up_close"
    /\ semaphore' = ScopeSemaphore(upstream[c])
    /\ IF exc[c] = "none"
       THEN /\ client_writer' = [client_writer EXCEPT ![c] = "closed"]
            /\ pc' = [pc EXCEPT ![c] = "client_close"]
            /\ UNCHANGED <<exc, sent>>
       ELSE /\ Except(c, exc[c])
    /\ UNCHANGED <<serverVars, index, selections, trace_id, upstream, up_writer, fixedVars, streamVars>>

\* wait_closed() returned
UpClosed(c) == UpClosedStep(c) /\ UNCHANGED faults
\* wait_closed() raised: except Exception: pass (lines 96-97)
UpCloseRaises(c) == UpClosedStep(c) /\ UNCHANGED faults

\* send_error, lines 291-293: drain() returned, or raised and was swallowed;
\* then the finally of handle_client (lines 84-88)
ErrorDrainedStep(c) ==
    /\ pc[c] = "send_error"
    /\ exc' = [exc EXCEPT ![c] = "none"]
    /\ client_writer' = [client_writer EXCEPT ![c] = "closed"]
    /\ pc' = [pc EXCEPT ![c] = "client_close"]
    /\ UNCHANGED <<serverVars, poolVars, trace_id, upstream, up_writer, sent, fixedVars, streamVars>>

\* drain() returned
ErrorDrained(c) == ErrorDrainedStep(c) /\ UNCHANGED faults
\* drain() raised: except Exception: pass (lines 292-293)
ErrorDrainRaises(c) == ErrorDrainedStep(c) /\ UNCHANGED faults

\* an exit of the admitted scope that leaves the counter as it is
WrapperExit_counter_kept ==
    /\ UNCHANGED active_connections
    /\ client_semaphore' = client_semaphore + 1

\* _active_connections and the client semaphore when the async with of
\* _handle_client_wrapper is left (lines 122-123)
WrapperExit ==
    /\ active_connections' = active_connections - 1
    /\ client_semaphore' = client_semaphore + 1

\* handle_client, lines 88-90: wait_closed() returned, or raised and was
\* swallowed; handle_client returns to the wrapper
ClientClosedStep(c) ==
    /\ pc[c] = "client_close"
    /\ WrapperExit
    /\ TaskDone(c, exc[c])
    /\ UNCHANGED <<poolVars, fixedVars, streamVars>>

\* wait_closed() returned
ClientClosed(c) == ClientClosedStep(c) /\ UNCHANGED faults
\* wait_closed() raised: except Exception: pass (lines 89-90)
ClientCloseRaises(c) == ClientClosedStep(c) /\ UNCHANGED faults

(***************************************************************************)
(* Cancellation: shutdown() cancels every task (main.py:72-74); the        *)
(* CancelledError is raised at the await where the task is suspended.      *)
(***************************************************************************)
InScope == {"request", "response_status", "response_rest"}

Cancel(c) ==
    /\ exc[c] # "CancelledError"
    /\ pc[c] \notin {"idle", "done"}
    /\ CASE pc[c] = "reject_drain" ->
              \* not an Exception: only the finally runs (lines 107-109)
              /\ exc' = [exc EXCEPT ![c] = "CancelledError"]
              /\ client_writer' = [client_writer EXCEPT ![c] = "closed"]
              /\ pc' = [pc EXCEPT ![c] = "reject_close"]
              /\ UNCHANGED <<serverVars, poolVars, trace_id, upstream, up_writer, sent>>
         [] pc[c] = "reject_close" ->
              /\ TaskDone(c, "CancelledError")
              /\ UNCHANGED <<serverVars, poolVars>>
         [] pc[c] \in {"parse", "wait_sem"} ->
              /\ Except(c, "CancelledError")
              /\ UNCHANGED <<serverVars, poolVars, trace_id, upstream, up_writer>>
         [] pc[c] = "connect" ->
              /\ semaphore' = ConnectFailSemaphore(upstream[c])
              /\ Except(c, "CancelledError")
              /\ UNCHANGED <<serverVars, index, selections, trace_id, upstream, up_writer>>
         [] pc[c] \in InScope \cup {"stalled"} ->
              /\ ScopeExit(c, "CancelledError")
              /\ UNCHANGED <<serverVars, poolVars, trace_id, upstream, client_writer, sent>>
         [] pc[c] = "up_close" ->
              \* wait_closed() cancelled: except Exception does not catch it
              /\ semaphore' = ScopeSemaphore(upstream[c])
              /\ Except(c, "CancelledError")
              /\ UNCHANGED <<serverVars, index, selections, trace_id, upstream, up_writer>>
         [] pc[c] = "send_error" ->
              /\ exc' = [exc EXCEPT ![c] = "CancelledError"]
              /\ client_writer' = [client_writer EXCEPT ![c] = "closed"]
              /\ pc' = [pc EXCEPT ![c] = "client_close"]
              /\ UNCHANGED <<serverVars, poolVars, trace_id, upstream, up_writer, sent>>
         [] pc[c] = "client_close" ->
              /\ WrapperExit
              /\ TaskDone(c, "CancelledError")
              /\ UNCHANGED poolVars
    /\ UNCHANGED <<fixedVars, streamVars>>
    /\ Fault

Next ==
    \E c \in Conns :
        \/ AcceptReject(c)
        \/ AcceptAdmit(c)
        \/ RejectDrained(c)
        \/ RejectDrainRaises(c)
        \/ RejectClosed(c)
        \/ RejectCloseRaises(c)
        \/ ParseOk(c)
        \/ ParseFail(c)
        \/ AcquireSem(c)
        \/ ConnectOk(c)
        \/ ConnectFail(c)
        \/ RequestSent(c)
        \/ RequestFail(c)
        \/ StatusLine(c)
        \/ StatusFail(c)
        \/ ResponseFail(c)
        \/ ResponseDone(c)
        \/ UpClosed(c)
        \/ UpCloseRaises(c)
        \/ ErrorDrained(c)
        \/ ErrorDrainRaises(c)
        \/ ClientClosed(c)
        \/ ClientCloseRaises(c)
        \/ Cancel(c)

Spec == Init /\ [][Next]_vars

(***************************************************************************)
(* The handlers under the scheduling of the event loop.  A task whose      *)
(* await has completed is run; an await without a deadline on a peer that  *)
(* neither sends, reads nor closes never completes.                        *)
(***************************************************************************)
\* the awaits of the scope that have no deadline: drain() toward an
\* upstream or a client that stopped reading (client_handler.py:69, 117,
\* 145, 185, 200, 245) and the readline() of line 183 from a silent peer
Stall(c) ==
    /\ pc[c] \in {"request", "response_rest"}
    /\ pc' = [pc EXCEPT ![c] = "stalled"]
    /\ UNCHANGED <<serverVars, poolVars, exc, trace_id, upstream, up_writer, client_writer, sent, fixedVars, streamVars>>
    /\ Fault

\* the steps of the task of c once accepted, shutdown apart
HandlerStep(c) ==
    \/ RejectDrained(c)
    \/ RejectDrainRaises(c)
    \/ RejectClosed(c)
    \/ RejectCloseRaises(c)
    \/ ParseOk(c)
    \/ ParseFail(c)
    \/ AcquireSem(c)
    \/ ConnectOk(c)
    \/ ConnectFail(c)
    \/ RequestSent(c)
    \/ RequestFail(c)
    \/ StatusLine(c)
    \/ StatusFail(c)
    \/ ResponseFail(c)
    \/ ResponseDone(c)
    \/ UpClosed(c)
    \/ UpCloseRaises(c)
    \/ ErrorDrained(c)
    \/ ErrorDrainRaises(c)
    \/ ClientClosed(c)
    \/ ClientCloseRaises(c)

NextLive ==
    \/ Next
    \/ \E c \in Conns : Stall(c)

\* the event loop resumes every task whose await has completed
SpecLive ==
    Init /\ [][NextLive]_vars /\ \A c \in Conns : WF_vars(HandlerStep(c))

(***************************************************************************)
(* stream_body_fixed (client_handler.py:120-146) on its own: reader is a   *)
(* source that will supply the bytes src and then closes or stays silent;  *)
(* StreamReader.read(n) returns between 1 and n of the bytes available.    *)
(***************************************************************************)
Bytes == 0..(NumByteValues - 1)

SeqsUpTo(S, n) == UNION {[1..k -> S] : k \in 0..n}

Min(a, b) == IF a < b THEN a ELSE b

InitFixed ==
    /\ src \in SeqsUpTo(Bytes, MaxSrcLen)
    /\ length \in 0..MaxLength
    /\ pos = 0
    /\ dst = << >>
    /\ remaining = length                                    \* line 132
    /\ requested = 0
    /\ fpc = "loop"
    /\ InitServer /\ InitPool /\ InitConns /\ faults = 0
    /\ NoStream

\* the proxy's connections take no part
NoConns == UNCHANGED <<serverVars, poolVars, connVars, faults>>
\* a body copy leaves the message head and the pipeline where they are
NoHead == UNCHANGED streamVars

\* line 134
ChunkSize(rem) == Min(CHUNK_SIZE, rem)

\* a decrement by the size asked for
Decrement_by_requested(rem, n, asked) == rem - asked

\* line 146, for a chunk of n bytes read after asking for asked
Decrement(rem, n, asked) == rem - n

\* lines 133-146: one turn of the loop, the read returning n bytes
FixedCopy(n) ==
    /\ fpc = "loop"
    /\ remaining > 0
    /\ n \in 1..Min(ChunkSize(remaining), Len(src) - pos)
    /\ requested' = ChunkSize(remaining)
    /\ dst' = dst \o SubSeq(src, pos + 1, pos + n)
    /\ pos' = pos + n
    /\ remaining' = Decrement(remaining, n, ChunkSize(remaining))
    /\ UNCHANGED <<src, length, fpc>>
    /\ NoConns /\ NoHead

\* lines 135-141: the source is closed, read returns b""
FixedEof ==
    /\ fpc = "loop"
    /\ remaining > 0
    /\ pos = Len(src)
    /\ requested' = ChunkSize(remaining)
    /\ fpc' = "ConnectionError: Client disconnected while sending body"
    /\ UNCHANGED <<src, pos, dst, length, remaining>>
    /\ NoConns /\ NoHead

\* lines 135-139: nothing arrives within timeouts.read
FixedTimeout ==
    /\ fpc = "loop"
    /\ remaining > 0
    /\ requested' = ChunkSize(remaining)
    /\ fpc' = "TimeoutError: reading body chunk"
    /\ UNCHANGED <<src, pos, dst, length, remaining>>
    /\ NoConns /\ NoHead

\* lines 143-145: the chunk is written, drain() finds the destination lost
FixedDrainFail(n) ==
    /\ fpc = "loop"
    /\ remaining > 0
    /\ n \in 1..Min(ChunkSize(remaining), Len(src) - pos)
    /\ requested' = ChunkSize(remaining)
    /\ dst' = dst \o SubSeq(src, pos + 1, pos + n)
    /\ pos' = pos + n
    /\ fpc' = "ConnectionResetError"
    /\ UNCHANGED <<src, length, remaining>>
    /\ NoConns /\ NoHead

\* line 133: the loop ends
FixedReturn ==
    /\ fpc = "loop"
    /\ ~(remaining > 0)
    /\ fpc' = "returned"
    /\ UNCHANGED <<src, pos, dst, length, remaining, requested>>
    /\ NoConns /\ NoHead

NextFixed ==
    \/ \E n \in 1..CHUNK_SIZE : FixedCopy(n)
    \/ FixedEof
    \/ FixedTimeout
    \/ \E n \in 1..CHUNK_SIZE : FixedDrainFail(n)
    \/ FixedReturn

SpecFixed == InitFixed /\ [][NextFixed]_vars

(***************************************************************************)
(* stream_body_chunked (client_handler.py:149-201) on its own.  Bytes are  *)
(* named by strings: hexadecimal digits, CR, LF and a data byte that is    *)
(* neither.  reader.readline() returns the bytes up to and including the   *)
(* next LF, or what is left when the source closes before one.             *)
(***************************************************************************)
CR == "CR"
LF == "LF"
HexDigits ==
    <<"0", "1", "2", "3", "4", "5", "6", "7",
      "8", "9", "a", "b", "c", "d", "e", "f">>
IsHex(ch) == \E i \in 1..Len(HexDigits) : HexDigits[i] = ch
HexValue(ch) == (CHOOSE i \in 1..Len(HexDigits) : HexDigits[i] = ch) - 1

\* bytes.strip(): ASCII whitespace is removed at both ends
SP == " "
CRLF == "CRLF"
Whitespace == {CR, LF, SP, CRLF}
RECURSIVE lstrip(_)
lstrip(s) == IF s # << >> /\ Head(s) \in Whitespace THEN lstrip(Tail(s)) ELSE s
RECURSIVE rstrip(_)
rstrip(s) ==
    IF s # << >> /\ s[Len(s)] \in Whitespace
    THEN rstrip(SubSeq(s, 1, Len(s) - 1))
    ELSE s
strip(s) == rstrip(lstrip(s))

\* int(t, 16) for digits only: {} stands for ValueError
RECURSIVE HexNumber(_)
HexNumber(t) ==
    IF t = << >> THEN 0
    ELSE 16 * HexNumber(SubSeq(t, 1, Len(t) - 1)) + HexValue(t[Len(t)])
int16(t) ==
    IF t # << >> /\ \A i \in 1..Len(t) : IsHex(t[i])
    THEN {HexNumber(t)}
    ELSE {}

\* readline() at offset p of s: through the next LF, else to the end
LineEnd(s, p) ==
    IF \E i \in (p + 1)..Len(s) : s[i] = LF
    THEN CHOOSE i \in (p + 1)..Len(s) :
             s[i] = LF /\ \A j \in (p + 1)..(i - 1) : s[j] # LF
    ELSE Len(s)
readline(s, p) == SubSeq(s, p + 1, LineEnd(s, p))

\* the docstring's format (lines 157-162): <size_hex> CRLF <data> CRLF ...
\* 0 CRLF CRLF
DataBytes == {"g", LF}
Chunks == UNION {[1..k -> DataBytes] : k \in 1..MaxChunkLen}
ChunkLists == SeqsUpTo(Chunks, MaxChunks)
EncodeChunk(d) == <<HexDigits[Len(d) + 1], CR, LF>> \o d \o <<CR, LF>>
RECURSIVE EncodeChunks(_)
EncodeChunks(b) ==
    IF b = << >> THEN << >> ELSE EncodeChunk(Head(b)) \o EncodeChunks(Tail(b))
LastChunk == <<"0", CR, LF, CR, LF>>
Encode(b) == EncodeChunks(b) \o LastChunk

\* what may follow a body in the source
Extras == {<< >>, <<"g">>}
Prefixes(s) == {SubSeq(s, 1, k) : k \in 0..Len(s)}
ChunkAlphabet == {HexDigits[i + 1] : i \in 0..MaxChunkLen} \cup DataBytes \cup {CR}

\* sources: bodies of the format, cut short anywhere or followed by more,
\* and short sources of any bytes
ChunkedSources ==
    UNION {Prefixes(Encode(b) \o e) : b \in ChunkLists, e \in Extras}
    \cup SeqsUpTo(ChunkAlphabet, MaxJunkLen)

InitChunked ==
    /\ src \in ChunkedSources
    /\ pos = 0
    /\ dst = << >>
    /\ length = 0
    /\ remaining = 0
    /\ requested = 0
    /\ fpc = "size_line"
    /\ InitServer /\ InitPool /\ InitConns /\ faults = 0
    /\ NoStream

\* a span without the CRLF that follows the data
ChunkSpan_data_only(chunk_size) == chunk_size

\* line 189: the bytes of a chunk of chunk_size bytes and its CRLF
ChunkSpan(chunk_size) == chunk_size + 2

\* lines 166-189: a size line is read, forwarded and parsed
SizeLine(outcome) ==
    /\ fpc = "size_line"
    /\ LET size_line == readline(src, pos)
           chunk_size == int16(strip(size_line))
       IN /\ size_line # << >>
          /\ dst' = dst \o size_line                          \* line 174
          /\ pos' = pos + Len(size_line)
          /\ CASE outcome = "invalid" ->
                    /\ chunk_size = {}
                    /\ fpc' = "ValueError: Invalid chunk size"
                    /\ UNCHANGED remaining
               [] outcome = "last" ->
                    /\ chunk_size = {0}
                    /\ fpc' = "trailing"
                    /\ UNCHANGED remaining
               [] outcome = "chunk" ->
                    /\ chunk_size \notin {{}, {0}}
                    /\ fpc' = "chunk"
                    /\ remaining' = ChunkSpan(CHOOSE n \in chunk_size : TRUE)
    /\ UNCHANGED <<src, length, requested>>
    /\ NoConns /\ NoHead

\* a chunk follows
ChunkedSizeLine == SizeLine("chunk") /\ fpc' = "chunk"
\* lines 181-183: the zero-size chunk
ChunkedLastChunk == SizeLine("last") /\ fpc' = "trailing"
\* lines 176-179
ChunkedInvalidSize == SizeLine("invalid") /\ fpc' # "trailing"

\* lines 171-172: the source is closed, readline() returns b""
ChunkedSizeEof ==
    /\ fpc = "size_line"
    /\ readline(src, pos) = << >>
    /\ fpc' = "ConnectionError: Client disconnected during chunked transfer"
    /\ UNCHANGED <<src, pos, dst, length, remaining, requested>>
    /\ NoConns /\ NoHead

\* lines 166-170: no line arrives within timeouts.read
ChunkedSizeTimeout ==
    /\ fpc = "size_line"
    /\ fpc' = "TimeoutError: reading chunk size"
    /\ UNCHANGED <<src, pos, dst, length, remaining, requested>>
    /\ NoConns /\ NoHead

\* lines 190-201: one turn of the inner loop, the read returning n bytes;
\* after the last turn the outer loop reads the next size line
ChunkedData(n) ==
    /\ fpc = "chunk"
    /\ remaining > 0
    /\ n \in 1..Min(Min(CHUNK_SIZE, remaining), Len(src) - pos)
    /\ requested' = Min(CHUNK_SIZE, remaining)               \* line 191
    /\ dst' = dst \o SubSeq(src, pos + 1, pos + n)
    /\ pos' = pos + n
    /\ remaining' = remaining - n                            \* line 201
    /\ fpc' = IF remaining' > 0 THEN "chunk" ELSE "size_line"
    /\ UNCHANGED <<src, length>>
    /\ NoConns /\ NoHead

\* lines 197-198: the source is closed, read() returns b""
ChunkedDataEof ==
    /\ fpc = "chunk"
    /\ remaining > 0
    /\ pos = Len(src)
    /\ requested' = Min(CHUNK_SIZE, remaining)
    /\ fpc' = "ConnectionError: Client disconnected during chunk"
    /\ UNCHANGED <<src, pos, dst, length, remaining>>
    /\ NoConns /\ NoHead

\* lines 192-196: nothing arrives within timeouts.read
ChunkedDataTimeout ==
    /\ fpc = "chunk"
    /\ remaining > 0
    /\ requested' = Min(CHUNK_SIZE, remaining)
    /\ fpc' = "TimeoutError: reading chunk data"
    /\ UNCHANGED <<src, pos, dst, length, remaining>>
    /\ NoConns /\ NoHead

\* lines 183-186: the line after the zero-size chunk is read and forwarded,
\* whatever it holds: a line, the rest of a closed source or b""
ChunkedTrailing ==
    /\ fpc = "trailing"
    /\ LET trailing == readline(src, pos)
       IN /\ dst' = dst \o trailing
          /\ pos' = pos + Len(trailing)
    /\ fpc' = "returned"
    /\ UNCHANGED <<src, length, remaining, requested>>
    /\ NoConns /\ NoHead

\* line 183: readline() is awaited without with_timeout; when no line
\* arrives and the source stays open the copy waits for as long as it does
ChunkedTrailingStall ==
    /\ fpc = "trailing"
    /\ fpc' = "blocked"
    /\ UNCHANGED <<src, pos, dst, length, remaining, requested>>
    /\ NoConns /\ NoHead

NextChunked ==
    \/ ChunkedSizeLine
    \/ ChunkedLastChunk
    \/ ChunkedInvalidSize
    \/ ChunkedSizeEof
    \/ ChunkedSizeTimeout
    \/ \E n \in 1..CHUNK_SIZE : ChunkedData(n)
    \/ ChunkedDataEof
    \/ ChunkedDataTimeout
    \/ ChunkedTrailing
    \/ ChunkedTrailingStall

SpecChunked == InitChunked /\ [][NextChunked]_vars

(***************************************************************************)
(* Message heads.  A line of a head is a sequence of words: names, values, *)
(* ":", "," , "-", spaces and the line end (CRLF as one word).  A reader   *)
(* supplies the lines of head and then is closed; src holds the bytes that *)
(* follow the head.                                                        *)
(***************************************************************************)
\* str.lower() of a word
lower_word(w) ==
    CASE w = "Content-Length"    -> "content-length"
      [] w = "Transfer-Encoding" -> "transfer-encoding"
      [] w = "X-Id"              -> "x-id"
      [] w = "Chunked"           -> "chunked"
      [] OTHER                   -> w
lower(t) == [i \in 1..Len(t) |-> lower_word(t[i])]

\* int(t) of a stripped value: a digit, or "-" and a digit; {}: ValueError
IsDigit(ch) == \E i \in 1..10 : HexDigits[i] = ch
int10(t) ==
    IF Len(t) = 1 /\ IsDigit(t[1]) THEN {HexValue(t[1])}
    ELSE IF Len(t) = 2 /\ t[1] = "-" /\ IsDigit(t[2]) THEN {0 - HexValue(t[2])}
    ELSE {}

\* the indices of word w in t
Indices(t, w) == {i \in 1..Len(t) : t[i] = w}
First(S) == CHOOSE i \in S : \A j \in S : i <= j

\* str.partition(":")
NameOf(line) ==
    IF Indices(line, ":") = {} THEN line
    ELSE SubSeq(line, 1, First(Indices(line, ":")) - 1)
ValueOf(line) ==
    IF Indices(line, ":") = {} THEN << >>
    ELSE SubSeq(line, First(Indices(line, ":")) + 1, Len(line))

\* the lines that end a head: b"\r\n", b"\n", b"" (http.py:74,
\* client_handler.py:244)
HeadEnd == {<<CRLF>>, <<LF>>, << >>}

\* readline() on the lines of a head, k lines read: b"" when it is closed
next_line(lines, k) == IF k < Len(lines) THEN lines[k + 1] ELSE << >>

HeaderLines ==
    { <<"Content-Length", ":", SP, "2", CRLF>>,
      <<"content-length", ":", "0", CRLF>>,
      <<"Content-Length", ":", SP, "-", "1", CRLF>>,
      <<"Content-Length", ":", SP, "abc", CRLF>>,
      <<"Transfer-Encoding", ":", SP, "chunked", CRLF>>,
      <<"transfer-encoding", ":", SP, "gzip", ",", SP, "Chunked", SP, CRLF>>,
      <<"X-Id", ":", SP, "2", SP, CRLF>>,
      <<"x-id", ":", SP, "0", CRLF>>,
      <<"X-Id", SP, "2", CRLF>> }

RequestLine == <<"POST", SP, "/echo", SP, "HTTP/1.1", CRLF>>
\* first lines that are not METHOD SP REQUEST-TARGET SP HTTP-VERSION
OtherRequestLines ==
    { <<"POST", CRLF>>,
      <<"POST", SP, "/echo", CRLF>>,
      <<"POST", SP, "/echo", SP, "x", SP, "HTTP/1.1", CRLF>>,
      <<"POST", SP, SP, "/echo", SP, "HTTP/1.1", CRLF>> }
StatusLineOk == <<"HTTP/1.1", SP, "200", SP, "OK", CRLF>>

\* a first line and up to MaxHeaders header lines, ended by the empty line
\* or by the peer closing
Heads(first) ==
    {<<first>> \o hs \o end :
        hs \in SeqsUpTo(HeaderLines, MaxHeaders),
        end \in {<< <<CRLF>> >>, << >>}}

\* the bytes after a head
Bodies ==
    {<< >>, <<"g">>, <<"g", LF, "g">>, <<"1", CR, LF, "g">>,
     Encode(<< >>), Encode(<< <<"g">> >>)}

\* a head that the peer did not finish is followed by nothing
Closed(h, b) == (h = << >> \/ h[Len(h)] # <<CRLF>>) => b = << >>

InitStream ==
    /\ \/ /\ head \in Heads(RequestLine) \cup {<< >>}
                       \cup {<<first, <<CRLF>>>> : first \in OtherRequestLines}
          /\ spc = "parse"
       \/ /\ head \in Heads(StatusLineOk) \cup {<< >>}
          /\ spc = "status"
    /\ src \in Bodies
    /\ Closed(head, src)
    /\ hpos = 0
    /\ wrote = << >>
    /\ request = [method |-> << >>, path |-> << >>, version |-> << >>,
                  headers |-> << >>]
    /\ content_length = {}
    /\ is_chunked = FALSE
    /\ pos = 0 /\ dst = << >> /\ length = 0 /\ remaining = 0
    /\ requested = 0 /\ fpc = "unused"
    /\ InitServer /\ InitPool /\ InitConns /\ faults = 0

(***************************************************************************)
(* The request side: parse_request (http.py:45-81), then in handle_client  *)
(* forward_request_headers and the selection of the body copy (lines       *)
(* 57-67).  headers is the dict as the sequence of its items.              *)
(***************************************************************************)
HasKey(d, k) == \E i \in 1..Len(d) : d[i][1] = k
\* dict[k] = v: a new key goes last, a key already there keeps its place
SetItem(d, k, v) ==
    IF HasKey(d, k)
    THEN [i \in 1..Len(d) |-> IF d[i][1] = k THEN <<k, v>> ELSE d[i]]
    ELSE Append(d, <<k, v>>)
\* dict.get(k, default)
Get(d, k, default) ==
    IF HasKey(d, k)
    THEN d[CHOOSE i \in 1..Len(d) : d[i][1] = k][2]
    ELSE default

\* http.py:64-68: strip().split(" ", 2); {}: not three parts, ValueError
RequestParts(line) ==
    LET t == strip(line)
        sp == Indices(t, SP)
    IN IF Cardinality(sp) < 2 THEN {}
       ELSE LET i == First(sp)
                j == First(sp \ {i})
            IN {[method |-> SubSeq(t, 1, i - 1),
                 path |-> SubSeq(t, i + 1, j - 1),
                 version |-> SubSeq(t, j + 1, Len(t))]}

\* http.py:72-79, k lines read so far and d the headers so far
RECURSIVE ReadHeaders(_, _, _)
ReadHeaders(lines, k, d) ==
    LET line == next_line(lines, k)
    IN IF line \in HeadEnd
       THEN [headers |-> d, hpos |-> Min(k + 1, Len(lines))]
       ELSE ReadHeaders(lines, k + 1,
                        SetItem(d, lower(strip(NameOf(line))),
                                strip(ValueOf(line))))

\* HttpRequest.content_length (http.py:28-32): None, an int or ValueError
HttpRequest_content_length(r) ==
    LET cl == Get(r.headers, <<"content-length">>, << >>)
    IN IF cl = << >> THEN [kind |-> "None", n |-> 0]
       ELSE IF int10(cl) = {} THEN [kind |-> "ValueError", n |-> 0]
       ELSE [kind |-> "int", n |-> CHOOSE n \in int10(cl) : TRUE]

\* HttpRequest.is_chunked (http.py:34-37)
HttpRequest_is_chunked(r) ==
    lower(Get(r.headers, <<"transfer-encoding">>, << >>)) = <<"chunked">>

\* a head written without the empty line that ends it
SerializeHead_no_end(r) ==
    <<r.method \o <<SP>> \o r.path \o <<SP>> \o r.version \o <<CRLF>>>>
    \o [i \in 1..Len(r.headers) |->
            r.headers[i][1] \o <<":", SP>> \o r.headers[i][2] \o <<CRLF>>]

\* forward_request_headers (client_handler.py:107-116): the lines written
SerializeHead(r) ==
    <<r.method \o <<SP>> \o r.path \o <<SP>> \o r.version \o <<CRLF>>>>
    \o [i \in 1..Len(r.headers) |->
            r.headers[i][1] \o <<":", SP>> \o r.headers[i][2] \o <<CRLF>>]
    \o << <<CRLF>> >>

NoBody == UNCHANGED <<src, pos, dst, length, remaining, requested, fpc>>

\* handle_client lines 43-47: parse_request returned
ReqParse ==
    /\ spc = "parse"
    /\ next_line(head, 0) # << >>
    /\ RequestParts(next_line(head, 0)) # {}
    /\ LET parts == CHOOSE x \in RequestParts(next_line(head, 0)) : TRUE
           rest == ReadHeaders(head, 1, << >>)
       IN /\ request' = [method |-> parts.method, path |-> parts.path,
                         version |-> parts.version, headers |-> rest.headers]
          /\ hpos' = rest.hpos
    /\ spc' = "acquire"
    /\ UNCHANGED <<head, wrote, content_length, is_chunked>>
    /\ NoBody /\ NoConns

\* http.py:60-61: the client closed before a request line
ReqParseEof ==
    /\ spc = "parse"
    /\ next_line(head, 0) = << >>
    /\ spc' = "ConnectionError: Empty request"
    /\ UNCHANGED <<head, hpos, wrote, request, content_length, is_chunked>>
    /\ NoBody /\ NoConns

\* http.py:65-66
ReqParseMalformed ==
    /\ spc = "parse"
    /\ next_line(head, 0) # << >>
    /\ RequestParts(next_line(head, 0)) = {}
    /\ hpos' = 1
    /\ spc' = "ValueError: Malformed request line"
    /\ UNCHANGED <<head, wrote, request, content_length, is_chunked>>
    /\ NoBody /\ NoConns

\* handle_client lines 43-47: the head does not arrive within timeouts.read
ReqParseTimeout ==
    /\ spc = "parse"
    /\ spc' = "TimeoutError: parsing request"
    /\ UNCHANGED <<head, hpos, wrote, request, content_length, is_chunked>>
    /\ NoBody /\ NoConns

\* handle_client lines 52-57: the upstream is connected; the head is
\* written, suspended in drain() (line 117)
ReqForward ==
    /\ spc = "acquire"
    /\ wrote' = SerializeHead(request)
    /\ spc' = "forward_drain"
    /\ UNCHANGED <<head, hpos, request, content_length, is_chunked>>
    /\ NoBody /\ NoConns

\* handle_client lines 60-67: the body copy is selected and started
ReqFraming ==
    /\ spc = "forward_drain"
    /\ LET cl == HttpRequest_content_length(request)
       IN CASE cl.kind = "ValueError" ->
                 /\ spc' = "ValueError: invalid literal for int()"
                 /\ UNCHANGED <<length, remaining, fpc>>
            [] cl.kind = "int" /\ cl.n # 0 ->
                 /\ length' = cl.n
                 /\ remaining' = cl.n
                 /\ fpc' = "loop"
                 /\ spc' = "request_body"
            [] OTHER ->
                 IF HttpRequest_is_chunked(request)
                 THEN /\ fpc' = "size_line"
                      /\ spc' = "request_body"
                      /\ UNCHANGED <<length, remaining>>
                 ELSE /\ spc' = "request_drain"
                      /\ UNCHANGED <<length, remaining, fpc>>
    /\ UNCHANGED <<head, hpos, wrote, request, content_length, is_chunked>>
    /\ UNCHANGED <<src, pos, dst, requested>>
    /\ NoConns

\* handle_client line 69: the body copy returned
ReqBodyDone ==
    /\ spc = "request_body"
    /\ fpc = "returned"
    /\ spc' = "request_drain"
    /\ UNCHANGED <<head, hpos, wrote, request, content_length, is_chunked>>
    /\ NoBody /\ NoConns

(***************************************************************************)
(* The response side: stream_response (client_handler.py:204-264).         *)
(***************************************************************************)
\* str.startswith
StartsWith(t, prefix) ==
    Len(t) >= Len(prefix) /\ SubSeq(t, 1, Len(prefix)) = prefix

\* lines 248-255: content_length after header_line is looked at
SniffContentLength(header_line, old) ==
    LET header_lower == lower(header_line)
    IN IF StartsWith(header_lower, <<"content-length", ":">>)
          /\ int10(strip(ValueOf(header_lower))) # {}
       THEN int10(strip(ValueOf(header_lower)))
       ELSE old

\* lines 248-255: is_chunked after header_line is looked at
SniffChunked(header_line, old) ==
    LET header_lower == lower(header_line)
    IN IF /\ ~StartsWith(header_lower, <<"content-length", ":">>)
          /\ StartsWith(header_lower, <<"transfer-encoding", ":">>)
          /\ Indices(header_lower, "chunked") # {}
       THEN TRUE
       ELSE old

\* a selection that looks at the chunked flag first
BodyCopy_chunked_first(cl, chunked) ==
    IF chunked THEN "chunked" ELSE IF cl # {} THEN "fixed" ELSE "none"

\* lines 258-262: the copy selected for the response body
BodyCopy(cl, chunked) ==
    IF cl # {} THEN "fixed" ELSE IF chunked THEN "chunked" ELSE "none"

\* lines 215-223: the status line is read and written
RespStatus ==
    /\ spc = "status"
    /\ next_line(head, 0) # << >>
    /\ wrote' = <<next_line(head, 0)>>
    /\ hpos' = 1
    /\ content_length' = {}                                  \* line 233
    /\ is_chunked' = FALSE                                   \* line 234
    /\ spc' = "headers"
    /\ UNCHANGED <<head, request>>
    /\ NoBody /\ NoConns

\* lines 220-221: the upstream closed before a status line
RespStatusEof ==
    /\ spc = "status"
    /\ next_line(head, 0) = << >>
    /\ spc' = "ConnectionError: Upstream closed connection"
    /\ UNCHANGED <<head, hpos, wrote, request, content_length, is_chunked>>
    /\ NoBody /\ NoConns

\* lines 215-219: no status line within timeouts.read
RespStatusTimeout ==
    /\ spc = "status"
    /\ spc' = "TimeoutError: reading response status"
    /\ UNCHANGED <<head, hpos, wrote, request, content_length, is_chunked>>
    /\ NoBody /\ NoConns

\* lines 237-255: a header line is read, written and looked at
RespHeader ==
    /\ spc = "headers"
    /\ LET header_line == next_line(head, hpos)
       IN /\ header_line \notin HeadEnd
          /\ wrote' = Append(wrote, header_line)
          /\ content_length' = SniffContentLength(header_line, content_length)
          /\ is_chunked' = SniffChunked(header_line, is_chunked)
    /\ hpos' = hpos + 1
    /\ UNCHANGED <<head, spc, request>>
    /\ NoBody /\ NoConns

\* lines 244-246 and 258-262: header_line, already written, ends the head;
\* after drain() the body copy is selected and started
EndOfHead(header_line) ==
    /\ spc = "headers"
    /\ next_line(head, hpos) = header_line
    /\ hpos' = Min(hpos + 1, Len(head))
    /\ CASE BodyCopy(content_length, is_chunked) = "fixed" ->
              /\ length' = CHOOSE n \in content_length : TRUE
              /\ remaining' = length'
              /\ fpc' = "loop"
              /\ spc' = "response_body"
         [] BodyCopy(content_length, is_chunked) = "chunked" ->
              /\ fpc' = "size_line"
              /\ spc' = "response_body"
              /\ UNCHANGED <<length, remaining>>
         [] OTHER ->
              /\ spc' = "returned"
              /\ UNCHANGED <<length, remaining, fpc>>
    /\ UNCHANGED <<head, request, content_length, is_chunked>>
    /\ UNCHANGED <<src, pos, dst, requested>>
    /\ NoConns

\* the empty line
RespHeadEnd ==
    \E header_line \in HeadEnd \ {<< >>} :
        EndOfHead(header_line) /\ wrote' = Append(wrote, header_line)

\* the upstream closed inside the head: readline() returns b"", which is
\* one of the values that end the loop (line 244)
RespHeadEof == EndOfHead(<< >>) /\ wrote' = wrote

\* lines 237-241: no header line within timeouts.read
RespHeaderTimeout ==
    /\ spc = "headers"
    /\ spc' = "TimeoutError: reading response header"
    /\ UNCHANGED <<head, hpos, wrote, request, content_length, is_chunked>>
    /\ NoBody /\ NoConns

\* line 264: the body copy returned
RespBodyDone ==
    /\ spc = "response_body"
    /\ fpc = "returned"
    /\ spc' = "returned"
    /\ UNCHANGED <<head, hpos, wrote, request, content_length, is_chunked>>
    /\ NoBody /\ NoConns

NextStream ==
    \/ ReqParse
    \/ ReqParseEof
    \/ ReqParseMalformed
    \/ ReqParseTimeout
    \/ ReqForward
    \/ ReqFraming
    \/ ReqBodyDone
    \/ RespStatus
    \/ RespStatusEof
    \/ RespStatusTimeout
    \/ RespHeader
    \/ RespHeadEnd
    \/ RespHeadEof
    \/ RespHeaderTimeout
    \/ RespBodyDone
    \/ NextFixed
    \/ NextChunked

SpecStream == InitStream /\ [][NextStream]_vars

(***************************************************************************)
(* Properties.                                                             *)
(***************************************************************************)
\* connections inside the async with of _handle_client_wrapper
HandlerPcs == {"parse", "wait_sem", "connect"} \cup InScope
              \cup {"up_close", "send_error", "client_close"}
InFlight == {c \in Conns : pc[c] \in HandlerPcs}

\* connections inside the async with of acquire_connection for upstream u
ScopePcs == {"connect"} \cup InScope \cup {"up_close"}
Holders(u) == {c \in Conns : pc[c] \in ScopePcs /\ upstream[c] = u}

Rejected(c) == pc[c] \in {"reject_drain", "reject_close"}

\* C1: in every reachable state the number of connections that passed the
\* admission check and have not yet released the client semaphore is at
\* most max_client_conns.
C1_AdmissionCap == Cardinality(InFlight) <= MaxClientConns

\* C1 witness: the ceiling is reached and a further connection was refused
C1_Witness ==
    /\ Cardinality(InFlight) = MaxClientConns
    /\ \E c \in Conns : pc[c] = "reject_drain"

\* C2: in every reachable state, for every upstream, the number of callers
\* past its semaphore (connecting, using or closing a connection) is at most
\* max_conns_per_upstream.
C2_UpstreamCap ==
    \A u \in Upstreams : Cardinality(Holders(u)) <= MaxConnsPerUpstream

\* C2 witness: an upstream is full and another caller waits for it
C2_Witness ==
    \E u \in Upstreams :
        /\ Cardinality(Holders(u)) = MaxConnsPerUpstream
        /\ \E c \in Conns : pc[c] = "wait_sem" /\ upstream[c] = u

\* C3: whenever no connection is in flight, whatever the outcomes of the
\* finished ones, the client semaphore has max_client_conns free slots and
\* every upstream semaphore has max_conns_per_upstream free slots.
C3_SlotsRestored ==
    (\A c \in Conns : pc[c] \in {"idle", "done"}) =>
        /\ client_semaphore = MaxClientConns
        /\ \A u \in Upstreams : semaphore[u] = MaxConnsPerUpstream

\* C3 witness: every connection has finished, failures were injected, and
\* upstream connections were opened and closed
C3_Witness ==
    /\ \A c \in Conns : pc[c] = "done"
    /\ faults = MaxFaults
    /\ \E c \in Conns : up_writer[c] = "closed"
    /\ \E c \in Conns : exc[c] = "CancelledError"

\* C4: the i-th selection (from 0) is the upstream at position i mod L, the
\* cursor stays in [0, L) and is N mod L after N selections, and every
\* upstream was selected floor(N/L) or ceil(N/L) times.
C4_RoundRobin ==
    LET N == Len(selections)
        L == NumUpstreams
        count(u) == Cardinality({i \in 1..N : selections[i] = u})
    IN  /\ \A i \in 1..N : selections[i] = (i - 1) % L
        /\ index \in 0..(L - 1)
        /\ index = N % L
        /\ \A u \in Upstreams : count(u) \in {N \div L, (N + L - 1) \div L}

\* C4 witness: the rotation has wrapped around
C4_Witness ==
    /\ Len(selections) > NumUpstreams
    /\ selections[Len(selections)] = 0

\* C5: a connection accepted while no client slot is free is not admitted
\* and never enters the handler: a 503 with Content-Length: 0, Connection:
\* close and the X-Trace-Id of the connection is written, the connection is
\* closed, and no step of it changes the semaphores, the pool or another
\* connection.
C5_RejectStep(c) ==
    /\ (pc[c] = "idle" /\ pc'[c] # "idle" /\ client_semaphore = 0) =>
           /\ pc'[c] = "reject_drain"
           /\ trace_id'[c] # 0
           /\ sent'[c] = << [status |-> 503, content_length |-> 0,
                             connection |-> "close",
                             x_trace_id |-> trace_id'[c]] >>
    /\ Rejected(c) => pc'[c] \in {"reject_drain", "reject_close", "done"}
    /\ (Rejected(c) /\ pc'[c] = "done") => client_writer'[c] = "closed"
    /\ (Rejected(c) \/ Rejected(c)') /\ pc'[c] # pc[c] =>
           /\ UNCHANGED <<serverVars, poolVars>>
           /\ \A d \in Conns \ {c} :
                  /\ pc'[d] = pc[d] /\ exc'[d] = exc[d] /\ sent'[d] = sent[d]
                  /\ upstream'[d] = upstream[d]
                  /\ up_writer'[d] = up_writer[d]
                  /\ client_writer'[d] = client_writer[d]

C5_Reject503 == [][\A c \in Conns : C5_RejectStep(c)]_vars

\* C5 witness: a refused connection is being closed while the admitted
\* connections are in the handler
C5_Witness ==
    \E c \in Conns :
        /\ pc[c] = "reject_close"
        /\ client_writer[c] = "closed"
        /\ Cardinality(InFlight) = MaxClientConns

\* the exceptions an "except Exception" clause catches
ExceptionClasses ==
    {"TimeoutError", "ConnectionError", "OSError", "ValueError",
     "AsyncioTimeoutError"}

\* the responses send_error wrote to the client of c
ErrorsSent(c) ==
    {i \in 1..Len(sent[c]) : sent[c][i].status \in {500, 502, 504}}

\* the status the claim gives to an exception of class e
ClaimedStatus(e) ==
    CASE e = "TimeoutError"    -> 504
      [] e = "ConnectionError" -> 502
      [] OTHER                 -> 500

\* C6: every failure of handle_client reaches the except clauses and is
\* answered by exactly one error response: 504 for a TimeoutError (the only
\* timeout with_timeout raises), else 502 for a ConnectionError, else 500;
\* no error response is written without a failure.
C6_State(c) ==
    /\ Cardinality(ErrorsSent(c)) <= 1
    /\ pc[c] = "send_error" =>
           /\ exc[c] \in ExceptionClasses
           /\ ErrorsSent(c) = {Len(sent[c])}
           /\ sent[c][Len(sent[c])].status = ClaimedStatus(exc[c])
    /\ pc[c] \in {"parse", "wait_sem", "connect", "up_close"} \cup InScope =>
           ErrorsSent(c) = {}

C6_Step(c) ==
    \* a failure outside the upstream scope goes to the except clauses
    /\ (pc[c] \in {"parse", "connect"} /\ exc'[c] \in ExceptionClasses) =>
           pc'[c] = "send_error"
    \* a failure inside it goes there through the scope exit
    /\ (pc[c] \in InScope /\ exc'[c] \in ExceptionClasses) =>
           pc'[c] = "up_close"
    /\ (pc[c] = "up_close" /\ exc[c] \in ExceptionClasses
        /\ pc'[c] # "up_close" /\ exc'[c] # "CancelledError") =>
           pc'[c] = "send_error" /\ exc'[c] = exc[c]
    \* a timeout under with_timeout is a TimeoutError
    /\ (pc[c] # "connect" /\ exc'[c] # exc[c]) =>
           exc'[c] # "AsyncioTimeoutError"
    \* without a failure nothing is sent by send_error
    /\ (pc[c] = "up_close" /\ exc[c] = "none" /\ pc'[c] # "up_close"
        /\ exc'[c] = "none") =>
           pc'[c] = "client_close" /\ sent'[c] = sent[c]

C6_ErrorMapping ==
    /\ [](\A c \in Conns : C6_State(c))
    /\ [][\A c \in Conns : C6_Step(c)]_vars

\* C6 witness: a ValueError raised after the upstream status line was
\* forwarded is being answered with 500
C6_Witness ==
    \E c \in Conns :
        /\ pc[c] = "send_error"
        /\ exc[c] = "ValueError"
        /\ Len(sent[c]) = 2
        /\ sent[c][2].status = 500

\* C7 (as claimed): a connect that exceeds the connect timeout releases the
\* upstream slot, is signalled as a connection error and is answered 502.
C7_ConnectTimeout502 ==
    [][\A c \in Conns :
         (pc[c] = "connect"
          /\ exc'[c] \in {"TimeoutError", "AsyncioTimeoutError"}) =>
             /\ semaphore'[upstream[c]] = semaphore[upstream[c]] + 1
             /\ isinstance(exc'[c], "ConnectionError")
             /\ sent'[c] = Append(sent[c], ErrorResponse(502))]_vars

\* C8: a read timeout on the response status line leaves the scope with a
\* TimeoutError and the upstream writer closed; leaving the scope releases
\* the upstream slot, and the client is sent 504.
C8_Step(c) ==
    /\ (pc[c] = "response_status" /\ exc[c] = "none"
        /\ exc'[c] \in {"TimeoutError", "AsyncioTimeoutError"}) =>
           /\ exc'[c] = "TimeoutError"
           /\ pc'[c] = "up_close"
           /\ up_writer'[c] = "closed"
           /\ sent'[c] = sent[c]
    /\ (pc[c] = "up_close" /\ exc[c] = "TimeoutError"
        /\ pc'[c] # "up_close" /\ exc'[c] # "CancelledError") =>
           /\ semaphore'[upstream[c]] = semaphore[upstream[c]] + 1
           /\ up_writer'[c] = "closed"
           /\ pc'[c] = "send_error"
           /\ Len(sent'[c]) = Len(sent[c]) + 1
           /\ sent'[c][Len(sent'[c])].status = 504

C8_StatusTimeout504 == [][\A c \in Conns : C8_Step(c)]_vars

\* C8 witness: after a timeout before any response byte the upstream
\* socket is closed, its slot is free again and 504 is the only response
C8_Witness ==
    \E c \in Conns :
        /\ pc[c] = "send_error"
        /\ exc[c] = "TimeoutError"
        /\ up_writer[c] = "closed"
        /\ semaphore[upstream[c]] = MaxConnsPerUpstream
        /\ Len(sent[c]) = 1
        /\ sent[c][1].status = 504

\* C9: a refused connect (ConnectionError from open_connection) releases
\* the upstream slot, opens no upstream socket, and the client is sent 502
\* as the only response.
C9_Step(c) ==
    (pc[c] = "connect" /\ exc'[c] = "ConnectionError") =>
        /\ semaphore'[upstream[c]] = semaphore[upstream[c]] + 1
        /\ up_writer'[c] = "none"
        /\ pc'[c] = "send_error"
        /\ Len(sent'[c]) = 1
        /\ sent'[c][1].status = 502
        /\ sent'[c][1].connection = "close"

C9_Refused502 == [][\A c \in Conns : C9_Step(c)]_vars

\* C9 witness: a request whose connect was refused is being answered 502,
\* with the slot of its upstream free again
C9_Witness ==
    \E c \in Conns :
        /\ pc[c] = "send_error"
        /\ exc[c] = "ConnectionError"
        /\ upstream[c] # -1
        /\ up_writer[c] = "none"
        /\ semaphore[upstream[c]] = MaxConnsPerUpstream
        /\ sent[c][1].status = 502

\* C10: stream_body_fixed(src, dst, N) with N > 0: whatever the split into
\* short reads, the destination holds a prefix of the source of at most N
\* bytes; when the source has at least N bytes the copy never fails for a
\* closed source, and when it returns the destination holds exactly the
\* first N bytes in order and nothing after them was read; no read asks for
\* more than remaining, and remaining goes down by the bytes actually read.
C10_State ==
    (fpc # "unused" /\ length > 0) =>
        /\ dst = SubSeq(src, 1, pos)
        /\ pos <= length
        /\ fpc \in {"loop", "returned"} => remaining = length - pos
        /\ fpc = "returned" => pos = length /\ dst = SubSeq(src, 1, length)
        /\ Len(src) >= length =>
               fpc # "ConnectionError: Client disconnected while sending body"

C10_Step ==
    (length > 0 /\ requested' # requested) =>
        /\ requested' <= remaining
        /\ requested' <= CHUNK_SIZE
        /\ pos' - pos <= requested'
        /\ remaining' \in {remaining, remaining - (pos' - pos)}
        /\ fpc' = "loop" => remaining' = remaining - (pos' - pos)

C10_FixedBody == []C10_State /\ [][C10_Step]_vars

\* C10 witness: a body longer than one chunk, copied by at least one short
\* read from a source that holds more bytes than the body
C10_Witness ==
    /\ fpc = "returned"
    /\ length > CHUNK_SIZE
    /\ Len(src) > length
    /\ dst = SubSeq(src, 1, length)
    /\ requested < CHUNK_SIZE

\* C16 (as claimed): whichever path ends a connection, its task finishes
\* with the client writer closed, and no failure of a close or of writing
\* an error response escapes the task (only a cancellation may).
C16_ClosedAndSwallowed ==
    [][\A c \in Conns :
         (pc[c] # "done" /\ pc'[c] = "done") =>
             /\ client_writer'[c] = "closed"
             /\ exc'[c] \in {"none", "CancelledError"}]_vars

\* C17: an upstream writer is open only inside the acquire_connection
\* scope; it is closed by the step that leaves the scope body, normally or
\* with an exception, while the slot of its upstream is still held; once
\* closed it stays closed; the slot is released by a later step, with the
\* writer already closed.
C17_State(c) ==
    /\ up_writer[c] = "open" => pc[c] \in InScope
    /\ pc[c] \in InScope => up_writer[c] = "open"
    /\ pc[c] = "up_close" =>
           up_writer[c] = "closed" /\ semaphore[upstream[c]] < MaxConnsPerUpstream

C17_Step(c) ==
    /\ (pc[c] \in InScope /\ pc'[c] \notin InScope) =>
           /\ pc'[c] = "up_close"
           /\ up_writer'[c] = "closed"
           /\ semaphore' = semaphore
    /\ up_writer[c] = "closed" => up_writer'[c] = "closed"
    /\ (up_writer[c] # "closed" /\ up_writer'[c] = "closed") =>
           up_writer[c] = "open" /\ pc[c] \in InScope
    /\ (pc[c] = "up_close" /\ pc'[c] # "up_close") =>
           /\ up_writer[c] = "closed"
           /\ semaphore'[upstream[c]] = semaphore[upstream[c]] + 1

C17_UpstreamClosedOnce ==
    /\ [](\A c \in Conns : C17_State(c))
    /\ [][\A c \in Conns : C17_Step(c)]_vars

\* C17 witness: the scope body raised; the upstream writer is closed and
\* the slot not yet released
C17_Witness ==
    \E c \in Conns :
        /\ pc[c] = "up_close"
        /\ exc[c] = "ConnectionError"
        /\ up_writer[c] = "closed"
        /\ semaphore[upstream[c]] = MaxConnsPerUpstream - 1

\* the chunk lists whose encoding, followed by something or nothing, is src
BodiesOf(s) == {b \in ChunkLists : \E e \in Extras : s = Encode(b) \o e}

\* the offsets at which a size line of the encoding of b starts
Boundaries(b) == {Len(EncodeChunks(SubSeq(b, 1, k))) : k \in 0..Len(b)}

\* C11: stream_body_chunked on a source that starts with a well-formed
\* body: the destination is at every moment the bytes read so far, never
\* beyond the body; each size line is read where a chunk of the body
\* starts, so after a size line exactly size + 2 bytes are copied before
\* the next one; the copy raises neither a framing error nor a premature
\* EOF; and when it returns the destination is the whole body, through the
\* line after the zero-size line, and nothing after it.
C11_State ==
    \A b \in BodiesOf(src) :
        fpc # "unused" =>
            /\ dst = SubSeq(src, 1, pos)
            /\ pos <= Len(Encode(b))
            /\ fpc = "size_line" => pos \in Boundaries(b)
            /\ fpc = "chunk" =>
                   \E k \in 1..Len(b) :
                       pos + remaining = Len(EncodeChunks(SubSeq(b, 1, k)))
            /\ fpc = "trailing" => pos = Len(EncodeChunks(b)) + 3
            /\ fpc = "returned" => dst = Encode(b)
            /\ fpc \notin {"ValueError: Invalid chunk size",
                           "ConnectionError: Client disconnected during chunked transfer",
                           "ConnectionError: Client disconnected during chunk"}

C11_ChunkedBody == []C11_State

\* C11 witness: a body of two chunks, the second with an LF in its data,
\* followed by a further byte, was copied and the copy returned
C11_Witness ==
    /\ fpc = "returned"
    /\ \E b \in ChunkLists :
           /\ Len(b) = 2
           /\ LF \in {b[2][i] : i \in 1..Len(b[2])}
           /\ src = Encode(b) \o <<"g">>
           /\ dst = Encode(b)

\* C12 (as claimed): in the chunked copy a read that returns no bytes, at a
\* size line, inside chunk data or at the line after the zero-size chunk,
\* ends the copy with a ConnectionError.
C12_EofIsError ==
    [][(/\ fpc \in {"size_line", "chunk", "trailing"}
        /\ pos = Len(src)
        /\ fpc' \notin {fpc, "blocked", "TimeoutError: reading chunk size",
                        "TimeoutError: reading chunk data"})
       => fpc' \in {"ConnectionError: Client disconnected during chunked transfer",
                    "ConnectionError: Client disconnected during chunk"}]_vars

\* C15 (as claimed): no read of the chunked copy waits without a bound for
\* a peer that sends nothing.
C15_ReadsBounded == fpc # "blocked"

\* the header lines of a head h: those after the first line and before the
\* line that ends it, or to the end of a head that was not finished
HeaderLinesOf(h) ==
    LET ends == {i \in 2..Len(h) : h[i] \in HeadEnd}
    IN SubSeq(h, 2, IF ends = {} THEN Len(h) ELSE First(ends) - 1)

\* C13: a line of the head is written only while no body byte has been
\* written and no body copy has started; the response head is written line
\* by line in the order received, the status line first; a request head is
\* written whole, from the request line to the empty line; and a body byte
\* is written only after the head was written through its empty line.
C13_Step ==
    /\ wrote' # wrote =>
           /\ dst = << >> /\ dst' = << >>
           /\ fpc = "unused"
           /\ spc = "acquire" =>
                  /\ wrote = << >>
                  /\ Len(wrote') = Len(request.headers) + 2
                  /\ StartsWith(wrote'[1], request.method)
                  /\ wrote'[Len(wrote')] = <<CRLF>>
           /\ spc \in {"status", "headers"} =>
                  wrote' = SubSeq(head, 1, Len(wrote) + 1)
    /\ dst' # dst =>
           /\ wrote' = wrote
           /\ spc \in {"request_body", "response_body"}
           /\ Len(wrote) >= 2
           /\ wrote[Len(wrote)] = <<CRLF>>
           /\ spc = "response_body" => wrote = SubSeq(head, 1, hpos)

C13_HeadBeforeBody == [][C13_Step]_vars

\* C13 witness: a response of a status line, two header lines and the
\* empty line was written and body bytes are being copied
C13_Witness ==
    /\ spc = "response_body"
    /\ Len(wrote) = 4
    /\ wrote[1] = StatusLineOk
    /\ dst # << >>

\* C14 (as claimed): the header lines forward_request_headers writes are
\* the received header lines in their order, one for one, each name
\* stripped and lower-cased and each value stripped.
C14_HeaderLinesPreserved ==
    (request.method # << >> /\ wrote # << >>) =>
        SubSeq(wrote, 2, Len(wrote) - 1) =
            [i \in 1..Len(HeaderLinesOf(head)) |->
                lower(strip(NameOf(HeaderLinesOf(head)[i])))
                \o <<":", SP>>
                \o strip(ValueOf(HeaderLinesOf(head)[i]))
                \o <<CRLF>>]

\* C18 (as claimed), for heads whose content-length is absent or an
\* integer: with content-length N > 0 the fixed copy of N bytes is started;
\* otherwise with transfer-encoding equal to "chunked" the chunked copy is
\* started; otherwise no copy that reads a body byte.
C18_RequestFraming ==
    [][(/\ spc = "forward_drain"
        /\ spc' # spc
        /\ LET cl == Get(request.headers, <<"content-length">>, << >>)
           IN cl = << >> \/ int10(cl) # {})
       => LET cl == Get(request.headers, <<"content-length">>, << >>)
              te == Get(request.headers, <<"transfer-encoding">>, << >>)
          IN IF \E n \in int10(cl) : n > 0
             THEN /\ fpc' = "loop"
                  /\ length' \in int10(cl)
                  /\ remaining' = length'
             ELSE IF lower(te) = <<"chunked">>
             THEN fpc' = "size_line"
             ELSE \/ fpc' = "unused"
                  \/ fpc' = "loop" /\ remaining' <= 0]_vars

\* the header lines among those read that stream_response takes for a
\* content-length with a decimal value, and for a chunked transfer-encoding
SeenContentLength ==
    {i \in 2..hpos :
        /\ StartsWith(lower(head[i]), <<"content-length", ":">>)
        /\ int10(strip(ValueOf(head[i]))) # {}}
SeenChunked ==
    {i \in 2..hpos :
        /\ StartsWith(lower(head[i]), <<"transfer-encoding", ":">>)
        /\ Indices(lower(head[i]), "chunked") # {}}

\* C19: when the response head ends, the fixed copy is started, with the
\* value of the last content-length line that has one, if there is such a
\* line, whether or not a chunked transfer-encoding was seen; otherwise the
\* chunked copy is started if a chunked transfer-encoding was seen;
\* otherwise stream_response returns and no body byte is ever written.
C19_Step ==
    (spc = "headers" /\ spc' \notin {"headers", "TimeoutError: reading response header"}) =>
        IF SeenContentLength # {}
        THEN /\ spc' = "response_body"
             /\ fpc' = "loop"
             /\ LET last == CHOOSE i \in SeenContentLength :
                                \A j \in SeenContentLength : j <= i
                IN length' \in int10(strip(ValueOf(head[last])))
             /\ remaining' = length'
        ELSE IF SeenChunked # {}
        THEN spc' = "response_body" /\ fpc' = "size_line"
        ELSE spc' = "returned" /\ fpc' = "unused" /\ dst' = << >>

C19_ResponseFraming ==
    /\ [][C19_Step]_vars
    /\ []((spc = "returned" /\ fpc = "unused") => dst = << >>)

\* C19 witness: a content-length and a chunked transfer-encoding were both
\* seen and the fixed copy is running
C19_Witness ==
    /\ spc = "response_body"
    /\ fpc = "loop"
    /\ SeenContentLength # {}
    /\ SeenChunked # {}

Tokens3(line) ==
    LET t == strip(line)
        sp == Indices(t, SP)
    IN /\ Cardinality(sp) = 2
       /\ \A i \in sp : i > 1 /\ i < Len(t) /\ i + 1 \notin sp
HeaderLinesRead(h) ==
    {h[i] : i \in {i \in 2..Len(h) : \A j \in 2..i : h[j] \notin HeadEnd}}
C21_MalformedRejected ==
    request.method # << >> =>
        /\ Tokens3(head[1])
        /\ \A line \in HeaderLinesRead(head) : Indices(line, ":") # {}

\* C22: nothing is retried.  A request makes exactly one round-robin
\* selection, when its head has been parsed, and keeps the selected upstream;
\* it starts at most one connect, to that upstream; when the connect fails
\* the handler goes on to the error response, with no upstream connection
\* and no slot of another upstream taken.
C22_Step(c) ==
    /\ upstream'[c] # upstream[c] =>
           \/ /\ pc[c] = "parse" /\ upstream[c] = -1
              /\ pc'[c] \in {"wait_sem", "connect"}
              /\ selections' = Append(selections, upstream'[c])
           \/ pc'[c] = "done" /\ upstream'[c] = -1
    /\ (pc'[c] \in {"wait_sem", "connect"} /\ pc'[c] # pc[c]) =>
           pc[c] \in {"parse", "wait_sem"}
    /\ (pc'[c] = "parse" /\ pc[c] # "parse") => pc[c] = "idle"
    /\ (pc[c] = "connect" /\ pc'[c] \notin {"connect", "request"}) =>
           /\ pc'[c] \in {"send_error", "client_close"}
           /\ exc'[c] \in ConnectErrors \cup {"CancelledError"}
           /\ up_writer'[c] = "none"
           /\ upstream'[c] = upstream[c]
           /\ UNCHANGED <<index, selections>>
           /\ \A u \in Upstreams \ {upstream[c]} : semaphore'[u] = semaphore[u]

C22_NoRetry ==
    [][/\ \A c \in Conns : C22_Step(c)
       /\ selections' # selections =>
              \E c \in Conns : upstream'[c] # upstream[c] /\ pc[c] = "parse"]_vars

\* C22 witness: the connect to the selected upstream failed and the error is
\* being answered, while the other upstream was never selected and is free
C22_Witness ==
    \E c \in Conns :
        /\ pc[c] = "send_error"
        /\ exc[c] \in ConnectErrors
        /\ up_writer[c] = "none"
        /\ selections = <<upstream[c]>>
        /\ \A u \in Upstreams \ {upstream[c]} :
               semaphore[u] = MaxConnsPerUpstream

\* C23: a handler whose selected upstream has no free slot waits on the
\* semaphore of that upstream without a deadline: while it waits nothing is
\* written to its client and no timeout or error is raised in it, it keeps
\* its upstream, and it goes on to connect only by taking a slot of that
\* upstream; a slot of a full upstream becomes free only when one of its
\* holders leaves the scope.
C23_Step(c) ==
    pc[c] = "wait_sem" =>
        /\ sent'[c] = sent[c]
        /\ upstream'[c] = upstream[c]
        /\ exc'[c] \in {"none", "CancelledError"}
        /\ exc'[c] = "none" => pc'[c] \in {"wait_sem", "connect"}
        /\ pc'[c] = "connect" =>
               /\ semaphore[upstream[c]] > 0
               /\ semaphore' = [semaphore EXCEPT ![upstream[c]] = @ - 1]

C23_WaitsForSlot ==
    /\ [](\A c \in Conns :
             (pc[c] = "wait_sem" /\ semaphore[upstream[c]] = 0) =>
                 Cardinality(Holders(upstream[c])) = MaxConnsPerUpstream)
    /\ [][/\ \A c \in Conns : C23_Step(c)
          /\ \A u \in Upstreams :
                 semaphore'[u] > semaphore[u] =>
                     \E d \in Holders(u) :
                         pc'[d] \notin ScopePcs /\ upstream[d] = u]_vars

\* C23 witness: a handler waits for its full upstream while another
\* upstream has a free slot
C23_Witness ==
    \E c \in Conns :
        /\ pc[c] = "wait_sem"
        /\ semaphore[upstream[c]] = 0
        /\ \E u \in Upstreams : semaphore[u] > 0

\* C24: the active-connection counter equals the number of connections
\* inside the admitted scope and max_client_conns minus the free capacity of
\* the client semaphore; it is never negative and is 0 when no connection is
\* in flight; it changes only by +1 when a connection is admitted and by -1
\* when a connection leaves the scope.
C24_State ==
    /\ active_connections = Cardinality(InFlight)
    /\ active_connections = MaxClientConns - client_semaphore
    /\ active_connections >= 0
    /\ InFlight = {} => active_connections = 0

C24_Step ==
    active_connections' # active_connections =>
        \/ /\ active_connections' = active_connections + 1
           /\ \E c \in Conns : pc[c] = "idle" /\ pc'[c] = "parse"
        \/ /\ active_connections' = active_connections - 1
           /\ \E c \in Conns : pc[c] \in HandlerPcs /\ pc'[c] = "done"

C24_ActiveCounter == []C24_State /\ [][C24_Step]_vars

\* C24 witness: the counter is at the limit again after an admitted
\* connection has left the scope
C24_Witness ==
    /\ active_connections = MaxClientConns
    /\ client_semaphore = 0
    /\ \E c \in Conns : pc[c] = "done" /\ client_writer[c] = "closed"
                         /\ up_writer[c] = "closed"

\* C25: every accepted connection, admitted or refused, has its own trace
\* ID in its task context (0: none set, the filter logs "-") from the first
\* log record on, so no record logged inside handle_client carries the
\* placeholder or the ID of another connection.
C25_TraceIdSet ==
    \A c \in Conns :
        (pc[c] \in HandlerPcs \/ Rejected(c)) =>
            /\ trace_id[c] # 0
            /\ \A d \in Conns \ {c} : trace_id[d] # trace_id[c]

\* C26: a client connection gets at most one response head: once the status
\* line of the upstream has been forwarded to it, no synthesized 502, 504 or
\* 500 is written to it afterwards.
C26_OneResponseHead ==
    \A c \in Conns :
        /\ Len(sent[c]) <= 1
        /\ \A i, j \in 1..Len(sent[c]) :
               (i < j /\ sent[c][i].connection = "upstream") =>
                   sent[c][j].status \notin {500, 502, 504}

\* C27: under fair scheduling every admitted handler eventually terminates:
\* it does not stay forever in a socket read, in a drain toward a stalled
\* destination or in the wait for an upstream slot.
C27_Terminates ==
    \A c \in Conns :
        (pc[c] = "parse") ~> (pc[c] = "done")

\* C28: a connection refused with 503, or whose request head is not parsed
\* (timeout, closed, malformed), leaves the pool untouched: no step of a
\* connection that has selected no upstream changes the cursor, a semaphore
\* of an upstream or the selections, and the upstream a parsed request gets
\* depends on the number of earlier selections only.
C28_Step(c) ==
    /\ (pc'[c] # pc[c] /\ upstream[c] = -1 /\ upstream'[c] = -1) =>
           UNCHANGED <<index, semaphore, selections>>
    /\ (pc[c] = "parse" /\ upstream'[c] # -1) =>
           upstream'[c] = Len(selections) % NumUpstreams

C28_PoolUntouched == [][\A c \in Conns : C28_Step(c)]_vars

\* C28 witness: after a refused connection and a failed parse, the first
\* parsed request has the first upstream
C28_Witness ==
    \E c, d, r \in Conns :
        /\ c < d
        /\ pc[c] = "send_error" /\ upstream[c] = -1
        /\ exc[c] \in ParseErrors
        /\ Rejected(r)
        /\ upstream[d] = 0
        /\ selections = <<0>>

====
